---- MODULE Spec2Model ----
(***************************************************************************)
(* A model of the sciforma organization uploader: the in-memory hierarchy  *)
(* graph (src/app/models.py), the graph builder (src/app/utils.py), the    *)
(* identity resolver (src/app/module1_loader.py) and the order enforcer    *)
(* (src/app/module2_orderer.py), driven as one synchronization run         *)
(* (src/app/main.py, upload_org / main).  Two further specifications use   *)
(* the same variables: SpecRequest, one call of SciformaClient._request    *)
(* (src/app/sciforma_client.py), and SpecServer, the three endpoints of    *)
(* src/app/main.py served concurrently around the global ORG_GRAPH.        *)
(*                                                                         *)
(* Node objects are modelled as heap cells: an object is an index into     *)
(* `heap`, and every reference (parent, children, siblings, the values of  *)
(* graph.nodes, roots_in_order) is such an index, 0 standing for None.     *)
(***************************************************************************)
EXTENDS Integers, Sequences, FiniteSets, TLC

\* ------------------------------------------------------------- bounds
\* The program's LEVELS has five entries; the model keeps the first NumLevels.
NumLevels == 2
\* Rows read by a run of the graph builder alone (SpecBuild).
MaxRows == 3
\* Rows read by a whole synchronization run (Spec).
MaxRunRows == 2
\* The largest graph (in nodes) a whole synchronization run resolves.
MaxResolveNodes == 3
\* Requests the server works on at once, and requests it accepts in all.
MaxWorkers == 2
MaxArrivals == 3

\* ---------------------------------------------------------- constants
TOP_PARENT_ID == 1
NO_SIBLING_ID == -10
\* random.randint(100000, 999999)
BandLow == 100000
BandHigh == 999999
\* None, for an object reference and for Node.id
NoNode == 0
NoId == 0

Levels == 1..NumLevels
Workers == 1..MaxWorkers

\* A cell is the (code, name) pair a row gives for one level, both stripped.
Blank == <<"", "">>
Cells == {Blank, <<"a", "x">>, <<"b", "y">>}
Rows == [Levels -> Cells]

\* Identifiers a lookup-by-description may return, and a create may return.
LookupIds == {5, BandLow}
CreateIds == {6}
\* The low end of the band random.randint draws from, one value per node of
\* the largest graph and one to spare.
SynthDraws == BandLow..(BandLow + MaxResolveNodes)

VARIABLES
    nodeDescription,  \* whether class Node has the `description` the resolver reads
    pc,               \* where the run is: build, resolve, enforce, done, failed
    rows,             \* the rows the csv reader has yielded so far
    heap,             \* the Node objects allocated so far
    nodes,            \* graph.nodes: (key, object) in insertion order
    roots_in_order,   \* graph.roots_in_order
    simulation,       \* the request's simulation flag
    cursor,           \* nodes already visited by the resolver's loop
    found, created,   \* resolve_or_create_ids' counters
    processed,        \* enforce_ordering's counter
    generated_ids,    \* module1_loader._generated_ids
    calls,            \* the calls that reached the remote service, in order
    patches,          \* the patch_organization invocations of enforce_ordering
    error,            \* the exception that ended the run, "" if none
    \* one call of SciformaClient._request and of the verb that made it
    rq,               \* idle, loop (top of `while True`), returned, ok, raised
    skip_auth,        \* the call's skip_auth argument
    headers,          \* the local `headers`: "none" (None), "given", "auth"
    token,            \* is self._token cached?
    attempt,          \* the local `attempt`
    sends,            \* what each self._client.request of the call met
    token_fetches,    \* token fetches _ensure_token made during the call
    resp,             \* the status of the response _request returned
    raised,           \* the exception the call ended with, "" if none
    \* the endpoints of main.py served by one process
    ORG_GRAPH,        \* the module global: a graph, or NoGraph for None
    graphs,           \* the OrgGraph instances built so far
    requests,         \* the requests being served, one per worker thread
    arrived,          \* requests accepted so far
    \* a run repeated against a remote service that keeps its records
    remote,           \* the records the service holds, oldest first
    run,              \* "first", or "rerun" once the rows are resolved again
    first,            \* what the first run left: the nodes' ids, and how it ended
    csv               \* the rows of the file, kept for the second build

clientVars == <<rq, skip_auth, headers, token, attempt, sends, token_fetches, resp, raised>>

serverVars == <<ORG_GRAPH, graphs, requests, arrived>>

rerunVars == <<remote, run, first, csv>>

vars == <<nodeDescription, pc, rows, heap, nodes, roots_in_order, simulation,
          cursor, found, created, processed, generated_ids, calls, patches, error,
          clientVars, serverVars, rerunVars>>

graphVars == <<heap, nodes, roots_in_order>>
runVars == <<simulation, cursor, found, created, processed, generated_ids, calls,
            patches, error>>

\* ------------------------------------------------------------ models.py
NewNode(level, code, name) ==
    [level |-> level, code |-> code, name |-> name, organization_code |-> code,
     parent |-> NoNode, children |-> <<>>,
     id |-> NoId, parent_id |-> TOP_PARENT_ID,
     previous_sibling |-> NoNode, next_sibling |-> NoNode,
     previous_sibling_id |-> NO_SIBLING_ID, next_sibling_id |-> NO_SIBLING_ID]

EmptyGraph == [heap |-> <<>>, nodes |-> <<>>, roots_in_order |-> <<>>]

Graph == [heap |-> heap, nodes |-> nodes, roots_in_order |-> roots_in_order]

\* Node.attach_child(self = p, child = c) on heap h
attach_child(h, p, c) ==
    LET kids == h[p].children
        h1 == IF kids # <<>>
              THEN LET prev == kids[Len(kids)]
                   IN  [[h EXCEPT ![prev].next_sibling = c]
                           EXCEPT ![c].previous_sibling = prev]
              ELSE h
        h2 == [[h1 EXCEPT ![p].children = Append(@, c)] EXCEPT ![c].parent = p]
        pid == IF h2[p].id # NoId THEN h2[p].id
               ELSE IF h2[p].parent_id # TOP_PARENT_ID THEN h2[p].parent_id
               ELSE TOP_PARENT_ID
    IN  [h2 EXCEPT ![c].parent_id = pid]

\* The position of key in graph.nodes, 0 when absent (key in self.nodes)
KeyIndex(ns, key) ==
    IF \E i \in 1..Len(ns) : ns[i].key = key
    THEN CHOOSE i \in 1..Len(ns) : ns[i].key = key
    ELSE 0

\* self.nodes[key] = node: a new key goes last, an old key keeps its place
DictSet(ns, key, obj) ==
    LET i == KeyIndex(ns, key)
    IN  IF i = 0 THEN Append(ns, [key |-> key, obj |-> obj])
        ELSE [ns EXCEPT ![i].obj = obj]

\* The key-present branch without the `node.parent is None` test
get_or_add_existing_reattach(g, node, parent) ==
    IF parent # NoNode
    THEN [g |-> [g EXCEPT !.heap = attach_child(g.heap, parent, node)], node |-> node]
    ELSE [g |-> g, node |-> node]

\* The branch of get_or_add that finds the key present
get_or_add_existing(g, node, parent) ==
    IF parent # NoNode /\ g.heap[node].parent = NoNode
    THEN [g |-> [g EXCEPT !.heap = attach_child(g.heap, parent, node)], node |-> node]
    ELSE [g |-> g, node |-> node]

\* The branch of get_or_add that makes a new Node
get_or_add_new(g, level, code, name, parent) ==
    LET node == Len(g.heap) + 1
        h0 == Append(g.heap, NewNode(level, code, name))
        ns == DictSet(g.nodes, <<level, code>>, node)
    IN  IF parent # NoNode
        THEN [g |-> [heap |-> attach_child(h0, parent, node), nodes |-> ns,
                     roots_in_order |-> g.roots_in_order],
              node |-> node]
        ELSE LET rs == g.roots_in_order
                 h1 == IF rs # <<>>
                       THEN LET prev == rs[Len(rs)]
                            IN  [[h0 EXCEPT ![prev].next_sibling = node]
                                    EXCEPT ![node].previous_sibling = prev]
                       ELSE h0
             IN  [g |-> [heap |-> h1, nodes |-> ns, roots_in_order |-> Append(rs, node)],
                  node |-> node]

\* get_or_add without the `key in self.nodes` test: every call makes a Node
get_or_add_always_new(g, level, code, name, parent) ==
    get_or_add_new(g, level, code, name, parent)

\* OrgGraph.get_or_add: the graph after the call and the node returned
get_or_add(g, level, code, name, parent) ==
    LET i == KeyIndex(g.nodes, <<level, code>>)
    IN  IF i # 0
        THEN get_or_add_existing(g, g.nodes[i].obj, parent)
        ELSE get_or_add_new(g, level, code, name, parent)

\* ------------------------------------------------------------- utils.py
\* The inner loop of build_graph_from_csv over LEVELS, from level lvl on
RECURSIVE RowFrom(_, _, _, _)
RowFrom(g, row, lvl, parent) ==
    IF lvl > NumLevels THEN g
    ELSE IF row[lvl] = Blank THEN RowFrom(g, row, lvl + 1, parent)
    ELSE LET r == get_or_add(g, lvl, row[lvl][1], row[lvl][2], parent)
         IN  RowFrom(r.g, row, lvl + 1, r.node)

ProcessRow(g, row) == RowFrom(g, row, 1, NoNode)

\* The outer loop of build_graph_from_csv over a sequence of rows
RECURSIVE ProcessRows(_, _)
ProcessRows(g, rs) ==
    IF rs = <<>> THEN g ELSE ProcessRows(ProcessRow(g, Head(rs)), Tail(rs))

\* ------------------------------------------------------ sciforma_client.py
\* SciformaClient.__init__: max_retries: int = 3
max_retries == 3
\* What a send meets: a response with a status, or httpx.RequestError
RequestError == 0
Responses == {RequestError, 200, 401, 404, 503}

\* No call of _request is in progress
ClientInit ==
    /\ rq = "idle"
    /\ skip_auth = FALSE
    /\ headers = "none"
    /\ token = FALSE
    /\ attempt = 0
    /\ sends = <<>>
    /\ token_fetches = 0
    /\ resp = 0
    /\ raised = ""

\* Everything a call of _request leaves alone
requestFrame == <<nodeDescription, pc, rows, graphVars, runVars, serverVars, rerunVars>>

\* A verb (or _ensure_token, with skip_auth) calls _request: its arguments,
\* and whether the client holds a token at that moment
RequestStart ==
    /\ rq = "idle"
    /\ skip_auth' \in BOOLEAN
    /\ headers' \in {"none", "given"}
    /\ token' \in BOOLEAN
    /\ rq' = "loop"
    /\ UNCHANGED <<attempt, sends, token_fetches, resp, raised, requestFrame>>

\* headers = self._auth_headers(), the token still cached: nothing is fetched
RequestAuthCached ==
    /\ rq = "loop" /\ ~skip_auth /\ headers = "none"
    /\ token
    /\ headers' = "auth"
    /\ UNCHANGED <<rq, skip_auth, token, attempt, sends, token_fetches, resp, raised,
                   requestFrame>>

\* headers = self._auth_headers(), the token absent or about to expire:
\* _ensure_token fetches one
RequestAuthFetch ==
    /\ rq = "loop" /\ ~skip_auth /\ headers = "none"
    /\ token' = TRUE
    /\ token_fetches' = token_fetches + 1
    /\ headers' = "auth"
    /\ UNCHANGED <<rq, skip_auth, attempt, sends, resp, raised, requestFrame>>

\* The token fetch of _ensure_token fails: the exception leaves _request
RequestAuthFetchFails ==
    /\ rq = "loop" /\ ~skip_auth /\ headers = "none"
    /\ token_fetches' = token_fetches + 1
    /\ rq' = "raised"
    /\ raised' = "TokenError"
    /\ UNCHANGED <<skip_auth, headers, token, attempt, sends, resp, requestFrame>>

\* The statuses retried on any call, whatever the status
should_retry_status_any_failure(status_code) == status_code # 200

\* SciformaClient._should_retry_status
should_retry_status(status_code) == status_code \in {429, 500, 502, 503, 504}

\* One send of the loop and what the loop does with its outcome
RequestSend ==
    /\ rq = "loop" /\ (skip_auth \/ headers # "none")
    /\ \E r \in Responses :
         /\ sends' = Append(sends, [status |-> r, fetches |-> token_fetches])
         /\ IF r = RequestError
            THEN IF attempt < max_retries
                 THEN /\ attempt' = attempt + 1
                      /\ headers' = "none"
                      /\ UNCHANGED <<rq, token, resp, raised>>
                 ELSE /\ rq' = "raised"
                      /\ raised' = "RequestError"
                      /\ UNCHANGED <<attempt, headers, token, resp>>
            ELSE IF r = 401 /\ ~skip_auth /\ attempt < max_retries
                 THEN /\ token' = FALSE
                      /\ headers' = "none"
                      /\ attempt' = attempt + 1
                      /\ UNCHANGED <<rq, resp, raised>>
            ELSE IF should_retry_status(r) /\ attempt < max_retries
                 THEN /\ attempt' = attempt + 1
                      /\ headers' = "none"
                      /\ UNCHANGED <<rq, token, resp, raised>>
            ELSE /\ rq' = "returned"
                 /\ resp' = r
                 /\ UNCHANGED <<attempt, headers, token, raised>>
    /\ UNCHANGED <<skip_auth, token_fetches, requestFrame>>

\* resp.raise_for_status() in the caller of _request
RaiseForStatus ==
    /\ rq = "returned"
    /\ IF resp = 200
       THEN rq' = "ok" /\ UNCHANGED raised
       ELSE rq' = "raised" /\ raised' = "HTTPStatusError"
    /\ UNCHANGED <<skip_auth, headers, token, attempt, sends, token_fetches, resp,
                   requestFrame>>

RequestNext ==
    \/ RequestStart
    \/ RequestAuthCached
    \/ RequestAuthFetch
    \/ RequestAuthFetchFails
    \/ RequestSend
    \/ RaiseForStatus

\* ---------------------------------------------------------------- main.py
\* ORG_GRAPH = None
NoGraph == 0

\* A worker thread's request: the endpoint, where its handler is, the graph
\* it holds (its local `graph`, or ORG_GRAPH as read for enforce_ordering),
\* and whether it has made a client
NoRequest == [kind |-> "none", at |-> "free", graph |-> NoGraph, client |-> FALSE]

Kinds == {"module1", "module2", "upload"}

\* The server has started and serves no request
ServerInit ==
    /\ ORG_GRAPH = NoGraph
    /\ graphs = <<>>
    /\ requests = [r \in Workers |-> NoRequest]
    /\ arrived = 0

\* Everything the endpoints leave alone
serverFrame == <<nodeDescription, pc, rows, graphVars, runVars, clientVars, rerunVars>>

At(r, r_at) == [requests EXCEPT ![r].at = r_at]

\* A request reaches a worker that serves none
Arrive(r) ==
    /\ requests[r].at \in {"free", "ok", "error"}
    /\ arrived < MaxArrivals
    /\ \E kind \in Kinds :
         requests' = [requests EXCEPT ![r] = [NoRequest EXCEPT !.kind = kind, !.at = "start"]]
    /\ arrived' = arrived + 1
    /\ UNCHANGED <<ORG_GRAPH, graphs, serverFrame>>

\* graph = build_graph_from_csv(req.csv_path), and with it the commit: what
\* the handler would do if it set ORG_GRAPH as soon as the graph is built
Build_Commits(r) ==
    /\ requests[r].kind \in {"module1", "upload"} /\ requests[r].at = "start"
    /\ graphs' = Append(graphs, [resolved |-> FALSE])
    /\ requests' = [requests EXCEPT ![r].at = "built", ![r].graph = Len(graphs) + 1]
    /\ ORG_GRAPH' = Len(graphs) + 1
    /\ UNCHANGED <<arrived, serverFrame>>

\* graph = build_graph_from_csv(req.csv_path): a new OrgGraph
Build(r) ==
    /\ requests[r].kind \in {"module1", "upload"} /\ requests[r].at = "start"
    /\ graphs' = Append(graphs, [resolved |-> FALSE])
    /\ requests' = [requests EXCEPT ![r].at = "built", ![r].graph = Len(graphs) + 1]
    /\ UNCHANGED <<ORG_GRAPH, arrived, serverFrame>>

\* build_graph_from_csv raises: HTTPException 400
BuildFails(r) ==
    /\ requests[r].kind \in {"module1", "upload"} /\ requests[r].at = "start"
    /\ requests' = At(r, "error")
    /\ UNCHANGED <<ORG_GRAPH, graphs, arrived, serverFrame>>

\* run_module2: if ORG_GRAPH is None: raise HTTPException 400
Module2Check(r) ==
    /\ requests[r].kind = "module2" /\ requests[r].at = "start"
    /\ requests' = At(r, IF ORG_GRAPH = NoGraph THEN "error" ELSE "checked")
    /\ UNCHANGED <<ORG_GRAPH, graphs, arrived, serverFrame>>

\* client = make_client(...) raises for a missing environment variable
MakeClientFails(r) ==
    /\ requests[r].at \in {"built", "checked"}
    /\ requests' = At(r, "error")
    /\ UNCHANGED <<ORG_GRAPH, graphs, arrived, serverFrame>>

\* client = make_client(...); resolve_or_create_ids(graph, client, ...) begins
StartResolveOf(r) ==
    /\ requests[r].at = "built"
    /\ requests' = [requests EXCEPT ![r].at = "resolving", ![r].client = TRUE]
    /\ UNCHANGED <<ORG_GRAPH, graphs, arrived, serverFrame>>

\* resolve_or_create_ids returns found, created
ResolveReturns(r) ==
    /\ requests[r].at = "resolving"
    /\ graphs' = [graphs EXCEPT ![requests[r].graph].resolved = TRUE]
    /\ requests' = At(r, "resolved")
    /\ UNCHANGED <<ORG_GRAPH, arrived, serverFrame>>

\* resolve_or_create_ids raises: nothing catches, the request fails
ResolveRaises(r) ==
    /\ requests[r].at = "resolving"
    /\ requests' = At(r, "error")
    /\ UNCHANGED <<ORG_GRAPH, graphs, arrived, serverFrame>>

\* run_module1: ORG_GRAPH = graph; return
Module1Commit(r) ==
    /\ requests[r].kind = "module1" /\ requests[r].at = "resolved"
    /\ ORG_GRAPH' = requests[r].graph
    /\ requests' = At(r, "ok")
    /\ UNCHANGED <<graphs, arrived, serverFrame>>

\* upload_org: enforce_ordering(graph, client, ...) begins
UploadStartEnforce(r) ==
    /\ requests[r].kind = "upload" /\ requests[r].at = "resolved"
    /\ requests' = At(r, "enforcing")
    /\ UNCHANGED <<ORG_GRAPH, graphs, arrived, serverFrame>>

\* run_module2: client = make_client(...); enforce_ordering(ORG_GRAPH, client,
\* ...) begins, on the graph the global names at that moment
Module2StartEnforce(r) ==
    /\ requests[r].kind = "module2" /\ requests[r].at = "checked"
    /\ requests' = [requests EXCEPT ![r].at = "enforcing", ![r].client = TRUE,
                                    ![r].graph = ORG_GRAPH]
    /\ UNCHANGED <<ORG_GRAPH, graphs, arrived, serverFrame>>

\* enforce_ordering returns processed; run_module2 returns its response
EnforceReturns(r) ==
    /\ requests[r].at = "enforcing"
    /\ requests' = At(r, IF requests[r].kind = "upload" THEN "enforced" ELSE "ok")
    /\ UNCHANGED <<ORG_GRAPH, graphs, arrived, serverFrame>>

\* enforce_ordering raises: nothing catches, the request fails
EnforceRaises(r) ==
    /\ requests[r].at = "enforcing"
    /\ requests' = At(r, "error")
    /\ UNCHANGED <<ORG_GRAPH, graphs, arrived, serverFrame>>

\* upload_org: ORG_GRAPH = graph; return
UploadCommit(r) ==
    /\ requests[r].kind = "upload" /\ requests[r].at = "enforced"
    /\ ORG_GRAPH' = requests[r].graph
    /\ requests' = At(r, "ok")
    /\ UNCHANGED <<graphs, arrived, serverFrame>>

\* The endpoints are plain `def` handlers: the server runs each request on a
\* worker thread, and the threads interleave
ServerNext ==
    \/ \E r \in Workers : Arrive(r)
    \/ \E r \in Workers : Build(r)
    \/ \E r \in Workers : BuildFails(r)
    \/ \E r \in Workers : Module2Check(r)
    \/ \E r \in Workers : MakeClientFails(r)
    \/ \E r \in Workers : StartResolveOf(r)
    \/ \E r \in Workers : ResolveReturns(r)
    \/ \E r \in Workers : ResolveRaises(r)
    \/ \E r \in Workers : Module1Commit(r)
    \/ \E r \in Workers : UploadStartEnforce(r)
    \/ \E r \in Workers : Module2StartEnforce(r)
    \/ \E r \in Workers : EnforceReturns(r)
    \/ \E r \in Workers : EnforceRaises(r)
    \/ \E r \in Workers : UploadCommit(r)

\* ------------------------------------------------------ the remote service
\* The first run has not ended, the service holds no record
NoFirst == [ids |-> <<>>, completed |-> FALSE]

\* GET /organizations?description=<desc> answered from the records the
\* service holds: get_org_by_description takes data[0], the first record of
\* that description; NoId when the list is empty
StoreLookup(store, description) ==
    LET hits == SelectSeq(store, LAMBDA rec : rec.description = description)
    IN  IF hits = <<>> THEN NoId ELSE hits[1].id

\* POST /organizations: the service keeps the record under an identifier no
\* earlier record holds, the least of CreateIds for its first record
StoreCreate(store, description) ==
    LET least == CHOOSE i \in CreateIds : \A j \in CreateIds : i <= j
    IN  Append(store, [description |-> description, id |-> least + Len(store)])

RerunInit ==
    /\ remote = <<>>
    /\ run = "first"
    /\ first = NoFirst
    /\ csv = <<>>

\* ---------------------------------------------------------------- the run
\* class Node (slots=True) declares no `description`, yet the resolver reads
\* node.description (module1_loader.py:32, 39): with the class as written that
\* read raises AttributeError at the first node visited.  nodeDescription =
\* "missing" is the class as written; "name" is the class carrying the
\* attribute the resolver expects, equal to the node's name (the lookup key),
\* under which the rest of the resolver and the enforcer are reachable.
Init ==
    /\ nodeDescription \in {"missing", "name"}
    /\ pc = "build"
    /\ rows = <<>>
    /\ heap = <<>>
    /\ nodes = <<>>
    /\ roots_in_order = <<>>
    /\ simulation = FALSE
    /\ cursor = 0
    /\ found = 0
    /\ created = 0
    /\ processed = 0
    /\ generated_ids = {}
    /\ calls = <<>>
    /\ patches = <<>>
    /\ error = ""
    /\ ClientInit
    /\ ServerInit
    /\ RerunInit

\* for row in reader: one row of the csv, all its levels
ReadRow(max) ==
    /\ pc = "build"
    /\ Len(rows) < max
    /\ \E row \in Rows :
         LET g == ProcessRow(Graph, row)
         IN  /\ heap' = g.heap
             /\ nodes' = g.nodes
             /\ roots_in_order' = g.roots_in_order
             /\ rows' = Append(rows, row)
    /\ UNCHANGED <<nodeDescription, pc, runVars, clientVars, serverVars, rerunVars>>

BuildNext == ReadRow(MaxRows)

\* What build_graph_from_csv raises for the file itself: FileNotFoundError
\* when the path does not exist, ValueError when a required header is missing
InputErrors == {"FileNotFoundError", "ValueError"}

\* The headers checked only while the rows are read
BuildInputError_AfterRows ==
    /\ pc = "build"
    /\ \E e \in InputErrors : error' = e
    /\ pc' = "failed"
    /\ UNCHANGED <<nodeDescription, rows, graphVars, simulation, cursor, found, created,
                   processed, generated_ids, calls, patches, clientVars, serverVars,
                   rerunVars>>

\* build_graph_from_csv raises before `for row in reader` (the path test even
\* before `graph = OrgGraph()`); the endpoint answers 400 before make_client
BuildInputError ==
    /\ pc = "build" /\ rows = <<>>
    /\ \E e \in InputErrors : error' = e
    /\ pc' = "failed"
    /\ UNCHANGED <<nodeDescription, rows, graphVars, simulation, cursor, found, created,
                   processed, generated_ids, calls, patches, clientVars, serverVars,
                   rerunVars>>

\* The graph builder reads no attribute of Node beyond those the class
\* declares: its runs start from the class as written
InitBuild == Init /\ nodeDescription = "missing"

SpecBuild == InitBuild /\ [][BuildNext]_vars

\* ------------------------------------------------- models.py, the views
\* OrgGraph.all_nodes_in_level_order, from level lvl on: graph.nodes in
\* insertion order, one level after the other
RECURSIVE LevelOrderFrom(_, _)
LevelOrderFrom(ns, lvl) ==
    IF lvl > NumLevels THEN <<>>
    ELSE LET level == SelectSeq(ns, LAMBDA e : e.key[1] = lvl)
         IN  [i \in 1..Len(level) |-> level[i].obj] \o LevelOrderFrom(ns, lvl + 1)

all_nodes_in_level_order(ns) == LevelOrderFrom(ns, 1)

\* The order of the two nested loops of resolve_or_create_ids
ResolveOrder(ns) == LevelOrderFrom(ns, 1)

\* node.parent.id if the parent has one, TOP_PARENT_ID without a parent, else
\* the parent_id the node holds
ParentIdOf(h, n) ==
    IF h[n].parent # NoNode /\ h[h[n].parent].id # NoId THEN h[h[n].parent].id
    ELSE IF h[n].parent = NoNode THEN TOP_PARENT_ID
    ELSE h[n].parent_id

SiblingIdOf(h, s) == IF s # NoNode /\ h[s].id # NoId THEN h[s].id ELSE NO_SIBLING_ID

\* The post-pass without the next_sibling_id line
compute_sibling_id_links_no_next(h, ns) ==
    LET inDict == {ns[i].obj : i \in 1..Len(ns)}
    IN  [o \in 1..Len(h) |->
           IF o \in inDict
           THEN [h[o] EXCEPT !.previous_sibling_id = SiblingIdOf(h, h[o].previous_sibling),
                             !.parent_id = ParentIdOf(h, o)]
           ELSE h[o]]

\* OrgGraph.compute_sibling_id_links: over graph.nodes.values()
compute_sibling_id_links(h, ns) ==
    LET inDict == {ns[i].obj : i \in 1..Len(ns)}
    IN  [o \in 1..Len(h) |->
           IF o \in inDict
           THEN [h[o] EXCEPT !.previous_sibling_id = SiblingIdOf(h, h[o].previous_sibling),
                             !.next_sibling_id = SiblingIdOf(h, h[o].next_sibling),
                             !.parent_id = ParentIdOf(h, o)]
           ELSE h[o]]

\* ------------------------------------------------------ module1_loader.py
\* The values _generate_unique_id may return: a draw of the band that is in
\* neither existing_ids nor _generated_ids. BandLow is the one value of the
\* band a lookup may also return; the other values of the band occur in no
\* response and are interchangeable, so the draws kept are BandLow, while it
\* is free, and the least free value above it.
generate_unique_id(existing_ids, generated) ==
    LET free == {val \in SynthDraws : val \notin existing_ids /\ val \notin generated}
        fresh == {val \in free : val > BandLow}
    IN  (free \cap {BandLow}) \cup {val \in fresh : \A w \in fresh : val <= w}

\* {n.id for n in graph.nodes.values() if n.id is not None}
ExistingIds(h, ns) == {h[ns[i].obj].id : i \in 1..Len(ns)} \ {NoId}

\* The node the resolver's loop visits next, and the heap once it has
\* recomputed that node's parent_id
Current == ResolveOrder(nodes)[cursor + 1]
Visited(h) == [h EXCEPT ![Current].parent_id = ParentIdOf(h, Current)]

LookupCall(n, ok, id) ==
    [verb |-> "lookup", node |-> n, description |-> heap[n].name,
     parent_id |-> NoId, ok |-> ok, id |-> id]
CreateCall(h, n, ok, id) ==
    [verb |-> "create", node |-> n, description |-> h[n].name,
     parent_id |-> h[n].parent_id, ok |-> ok, id |-> id]

\* build_graph_from_csv returns; the request's simulation flag comes into play
StartResolve ==
    /\ pc = "build"
    /\ Len(nodes) <= MaxResolveNodes       \* the bound on the graphs resolved
    /\ pc' = "resolve"
    /\ rows' = <<>>
    /\ simulation' \in BOOLEAN
    /\ cursor' = 0
    /\ UNCHANGED <<clientVars, serverVars, rerunVars, nodeDescription, patches, graphVars, found, created, processed,
                   generated_ids, calls, error>>

\* node.description on a Node that has no such attribute
ResolveAttributeError ==
    /\ pc = "resolve" /\ cursor < Len(nodes)
    /\ nodeDescription = "missing"
    /\ heap' = Visited(heap)
    /\ pc' = "failed"
    /\ error' = "AttributeError"
    /\ UNCHANGED <<clientVars, serverVars, rerunVars, nodeDescription, patches, rows, nodes, roots_in_order, simulation, cursor,
                   found, created, processed, generated_ids, calls>>

\* The failed lookup swallowed: the loop goes on to the next node
ResolveLookupFails_Swallowed ==
    /\ pc = "resolve" /\ cursor < Len(nodes)
    /\ nodeDescription = "name"
    /\ heap' = Visited(heap)
    /\ calls' = Append(calls, LookupCall(Current, FALSE, NoId))
    /\ cursor' = cursor + 1
    /\ UNCHANGED <<clientVars, serverVars, rerunVars, nodeDescription, patches, pc, rows, nodes, roots_in_order, simulation,
                   found, created, processed, generated_ids, error>>

\* get_org_by_description raises, or returns an id int() cannot read
ResolveLookupFails ==
    /\ pc = "resolve" /\ cursor < Len(nodes)
    /\ nodeDescription = "name"
    /\ heap' = Visited(heap)
    /\ calls' = Append(calls, LookupCall(Current, FALSE, NoId))
    /\ pc' = "failed"
    /\ error' = "RemoteError"
    /\ UNCHANGED <<clientVars, serverVars, rerunVars, nodeDescription, patches, rows, nodes, roots_in_order, simulation, cursor,
                   found, created, processed, generated_ids>>

\* The found branch of the loop body, the record's id being one of ids
FoundStep(ids) ==
    /\ pc = "resolve" /\ cursor < Len(nodes)
    /\ nodeDescription = "name"
    /\ \E id \in ids :
         /\ heap' = [Visited(heap) EXCEPT ![Current].id = id]
         /\ calls' = Append(calls, LookupCall(Current, TRUE, id))
    /\ found' = found + 1
    /\ cursor' = cursor + 1
    /\ UNCHANGED <<clientVars, serverVars, nodeDescription, patches, pc, rows, nodes, roots_in_order, simulation,
                   created, processed, generated_ids, error>>

\* The lookup returns a record with an id: adopt it
ResolveFound == FoundStep(LookupIds) /\ UNCHANGED rerunVars

\* The create branch of the loop body: the lookup returned nothing usable,
\* create_organization returns a record whose id is one of ids, NoId for a
\* record without an id
CreateWith(ids) ==
    /\ pc = "resolve" /\ cursor < Len(nodes)
    /\ nodeDescription = "name"
    /\ \E id \in ids :
         /\ heap' = [Visited(heap) EXCEPT ![Current].id = IF id # NoId THEN id ELSE @]
         /\ calls' = calls \o <<LookupCall(Current, TRUE, NoId),
                                 CreateCall(Visited(heap), Current, TRUE, id)>>
    /\ created' = created + 1
    /\ cursor' = cursor + 1
    /\ UNCHANGED <<clientVars, serverVars, nodeDescription, patches, pc, rows, nodes, roots_in_order, simulation,
                   found, processed, generated_ids, error>>

\* The create branch, create_organization returning a record with an id or
\* without
CreateStep == CreateWith(CreateIds \cup {NoId}) /\ UNCHANGED rerunVars

\* The create branch taken without the `if not simulation` test
ResolveCreate_InSimulation == CreateStep

\* if not simulation: the create branch
ResolveCreate == ~simulation /\ CreateStep

\* The create branch when create_organization raises
CreateFailsStep ==
    /\ pc = "resolve" /\ cursor < Len(nodes)
    /\ nodeDescription = "name"
    /\ ~simulation
    /\ heap' = Visited(heap)
    /\ calls' = calls \o <<LookupCall(Current, TRUE, NoId),
                            CreateCall(Visited(heap), Current, FALSE, NoId)>>
    /\ pc' = "failed"
    /\ error' = "RemoteError"
    /\ UNCHANGED <<clientVars, serverVars, nodeDescription, patches, rows, nodes, roots_in_order, simulation, cursor,
                   found, created, processed, generated_ids>>

\* The lookup returns nothing usable, not in simulation: create_organization raises
ResolveCreateFails == CreateFailsStep /\ UNCHANGED rerunVars

\* The else branch of the loop body: the lookup returned nothing usable, an
\* id is synthesized; `counted` is what the branch adds to created
SynthesizeStep(counted) ==
    /\ pc = "resolve" /\ cursor < Len(nodes)
    /\ nodeDescription = "name"
    /\ simulation
    /\ \E val \in generate_unique_id(ExistingIds(heap, nodes), generated_ids) :
         /\ heap' = [Visited(heap) EXCEPT ![Current].id = val]
         /\ generated_ids' = generated_ids \cup {val}
    /\ calls' = Append(calls, LookupCall(Current, TRUE, NoId))
    /\ created' = created + counted
    /\ cursor' = cursor + 1
    /\ UNCHANGED <<clientVars, serverVars, rerunVars, nodeDescription, patches, pc, rows, nodes, roots_in_order, simulation,
                   found, processed, error>>

\* The else branch with `created += 1` moved after the if/else
ResolveSynthesize_Counted == SynthesizeStep(1)

\* else: the simulation branch, which counts nothing
ResolveSynthesize == SynthesizeStep(0)

\* The loops are over: graph.compute_sibling_id_links(); return found, created
ResolveFinish ==
    /\ pc = "resolve" /\ cursor = Len(nodes)
    /\ heap' = compute_sibling_id_links(heap, nodes)
    /\ pc' = "enforce"
    /\ UNCHANGED <<clientVars, serverVars, rerunVars, nodeDescription, patches, rows, nodes, roots_in_order, simulation, cursor,
                   found, created, processed, generated_ids, calls, error>>

\* ----------------------------------------------------- module2_orderer.py
\* The loop of enforce_ordering in simulation, over nodes[i..]: the nodes it
\* counts as processed
RECURSIVE ProcessedFrom(_, _, _)
ProcessedFrom(h, order, i) ==
    IF i > Len(order) THEN 0
    ELSE (IF h[order[i]].id = NoId THEN 0 ELSE 1) + ProcessedFrom(h, order, i + 1)

\* The nodes of the loop that hold an id
WithId(h, order) == {i \in 1..Len(order) : h[order[i]].id # NoId}

\* enforce_ordering in simulation: every node with an id is counted, nothing
\* is sent
EnforceSimulated ==
    /\ pc = "enforce"
    /\ simulation
    /\ processed' = ProcessedFrom(heap, all_nodes_in_level_order(nodes), 1)
    /\ pc' = "done"
    /\ UNCHANGED <<clientVars, serverVars, rerunVars, nodeDescription, patches, rows, graphVars, simulation, cursor, found,
                   created, generated_ids, calls, error>>

\* The arguments enforce_ordering passes to client.patch_organization for node n
PatchCall(h, n) ==
    [node |-> n, org_id |-> h[n].id, parent_id |-> h[n].parent_id,
     name |-> h[n].name, next_sibling_id |-> NO_SIBLING_ID]

\* The first node of the loop that holds an id
FirstWithId(h, order) ==
    order[CHOOSE i \in WithId(h, order) : \A j \in WithId(h, order) : i <= j]

\* enforce_ordering outside simulation, reaching the first node with an id:
\* client.patch_organization(node.id, parent_id=, name=, next_sibling_id=-10)
\* lacks the keyword-only `code` the method requires, a TypeError before any
\* request is made
EnforcePatch ==
    /\ pc = "enforce"
    /\ ~simulation
    /\ WithId(heap, all_nodes_in_level_order(nodes)) # {}
    /\ patches' = Append(patches,
                         PatchCall(heap, FirstWithId(heap, all_nodes_in_level_order(nodes))))
    /\ pc' = "failed"
    /\ error' = "TypeError"
    /\ UNCHANGED <<clientVars, serverVars, rerunVars, nodeDescription, rows, graphVars, simulation, cursor, found,
                   created, processed, generated_ids, calls>>

\* enforce_ordering outside simulation when no node holds an id: every node
\* is skipped, return processed
EnforceSkipsAll ==
    /\ pc = "enforce"
    /\ ~simulation
    /\ WithId(heap, all_nodes_in_level_order(nodes)) = {}
    /\ pc' = "done"
    /\ UNCHANGED <<clientVars, serverVars, rerunVars, nodeDescription, patches, rows, graphVars, simulation, cursor, found,
                   created, processed, generated_ids, calls, error>>

\* upload_org / main: build, resolve, enforce
Next ==
    \/ BuildInputError
    \/ ReadRow(MaxRunRows)
    \/ StartResolve
    \/ ResolveAttributeError
    \/ ResolveLookupFails
    \/ ResolveFound
    \/ ResolveCreate
    \/ ResolveCreateFails
    \/ ResolveSynthesize
    \/ ResolveFinish
    \/ EnforceSimulated
    \/ EnforcePatch
    \/ EnforceSkipsAll

Spec == Init /\ [][Next]_vars

\* ------------------------------------------- a run and its re-run, one service
\* build_graph_from_csv returns the graph of the file's rows; the run is not
\* a simulation
StartFirstRun ==
    /\ pc = "build" /\ run = "first"
    /\ Len(nodes) <= MaxResolveNodes       \* the bound on the graphs resolved
    /\ csv' = rows
    /\ rows' = <<>>
    /\ simulation' = FALSE
    /\ pc' = "resolve"
    /\ cursor' = 0
    /\ UNCHANGED <<clientVars, serverVars, remote, run, first, nodeDescription, patches,
                   graphVars, found, created, processed, generated_ids, calls, error>>

\* The service holds a record of the node's description: the found branch
\* with that record's id
RemoteFound ==
    /\ pc = "resolve" /\ cursor < Len(nodes)
    /\ StoreLookup(remote, heap[Current].name) # NoId
    /\ FoundStep({StoreLookup(remote, heap[Current].name)})
    /\ UNCHANGED rerunVars

\* The service holds no record of the node's description: the create branch;
\* the service keeps the new record, the response carries its id or none
RemoteCreate ==
    /\ pc = "resolve" /\ cursor < Len(nodes)
    /\ ~simulation
    /\ StoreLookup(remote, heap[Current].name) = NoId
    /\ remote' = StoreCreate(remote, heap[Current].name)
    /\ CreateWith({remote'[Len(remote')].id, NoId})
    /\ UNCHANGED <<run, first, csv>>

\* The service holds no record of the node's description and the create call
\* raises: the request was lost, or its response was and the record is kept
RemoteCreateFails ==
    /\ pc = "resolve" /\ cursor < Len(nodes)
    /\ StoreLookup(remote, heap[Current].name) = NoId
    /\ remote' \in {remote, StoreCreate(remote, heap[Current].name)}
    /\ CreateFailsStep
    /\ UNCHANGED <<run, first, csv>>

\* The run has ended, by its return or by what it raised
RunEnded ==
    \/ pc = "enforce"
    \/ pc = "failed" /\ error \in {"AttributeError", "RemoteError"}

\* The same file again: a new graph of the same rows, the same service
Rerun ==
    /\ run = "first" /\ RunEnded
    /\ first' = [ids |-> [n \in 1..Len(heap) |-> heap[n].id], completed |-> pc = "enforce"]
    /\ run' = "rerun"
    /\ LET g == ProcessRows(EmptyGraph, csv)
       IN  /\ heap' = g.heap
           /\ nodes' = g.nodes
           /\ roots_in_order' = g.roots_in_order
    /\ found' = 0
    /\ created' = 0
    /\ calls' = <<>>
    /\ error' = ""
    /\ cursor' = 0
    /\ pc' = "resolve"
    /\ UNCHANGED <<clientVars, serverVars, remote, csv, nodeDescription, patches, rows,
                   simulation, processed, generated_ids>>

RemoteNext ==
    \/ ReadRow(MaxRunRows)
    \/ StartFirstRun
    \/ ResolveAttributeError
    \/ ResolveLookupFails
    \/ RemoteFound
    \/ RemoteCreate
    \/ RemoteCreateFails
    \/ ResolveFinish
    \/ Rerun

SpecRemote == Init /\ [][RemoteNext]_vars

\* One call of SciformaClient._request by a verb, from any arguments; the call
\* is running code, it takes its next step
InitRequest == Init /\ nodeDescription = "missing"

SpecRequest == InitRequest /\ [][RequestNext]_vars /\ WF_vars(RequestNext)

\* The server process from its start, serving /module1, /module2, /upload-org
InitServer == Init /\ nodeDescription = "missing"

SpecServer == InitServer /\ [][ServerNext]_vars

\* Has resolve_or_create_ids returned (the run went on to enforce_ordering)?
ResolveCompleted ==
    pc \in {"enforce", "done"} \/ (pc = "failed" /\ error = "TypeError")

\* The calls of one verb that reached the remote service
CallsOf(verb) == {i \in 1..Len(calls) : calls[i].verb = verb}

\* ------------------------------------------------------- graph vocabulary
Range(q) == {q[i] : i \in 1..Len(q)}

KeyOf(h, o) == <<h[o].level, h[o].code>>

\* The objects a Node refers to
Refs(h, o) ==
    ({h[o].parent, h[o].previous_sibling, h[o].next_sibling} \cup Range(h[o].children))
        \ {NoNode}

RECURSIVE Closure(_, _)
Closure(h, S) ==
    LET T == S \cup UNION {Refs(h, o) : o \in S}
    IN  IF T = S THEN S ELSE Closure(h, T)

\* The Node instances the graph contains: those graph.nodes and roots_in_order
\* hold, and those reachable from them
GraphNodes ==
    Closure(heap, {nodes[i].obj : i \in 1..Len(nodes)} \cup Range(roots_in_order))

\* The (level, code) keys the rows read so far present
KeysIn(rs) ==
    {<<l, rs[i][l][1]>> : <<i, l>> \in {p \in (1..Len(rs)) \X Levels : rs[p[1]][p[2]] # Blank}}

\* The sibling lists of the graph: every non-empty children list, and the root list
SiblingLists ==
    {heap[o].children : o \in {x \in 1..Len(heap) : heap[x].children # <<>>}}
        \cup (IF roots_in_order # <<>> THEN {roots_in_order} ELSE {})

IsPrefix(a, b) == Len(a) <= Len(b) /\ \A i \in 1..Len(a) : a[i] = b[i]

\* ------------------------------------------------------------------ C1
\* C1: after any sequence of rows the graph holds no two distinct Node
\* instances with the same (level, code), and it holds exactly one Node per
\* key the rows presented: a call of get_or_add with a key already present
\* added no Node.
C1_Uniqueness ==
    /\ \A o1, o2 \in GraphNodes : o1 # o2 => KeyOf(heap, o1) # KeyOf(heap, o2)
    /\ {KeyOf(heap, o) : o \in GraphNodes} = KeysIn(rows)
    /\ Len(heap) = Cardinality(KeysIn(rows))
    /\ Len(nodes) = Cardinality(KeysIn(rows))

\* A key was presented by two rows, under two different parents
C1_Witness ==
    /\ Len(rows) = 2
    /\ rows[1][2] # Blank /\ rows[1][2][1] = rows[2][2][1]
    /\ rows[1][1] # Blank /\ rows[2][1] # Blank /\ rows[1][1][1] # rows[2][1][1]
    /\ Len(heap) = 3

\* ------------------------------------------------------------------ C2
\* C2: sibling links are symmetric, and in every non-empty children list and
\* in the root list exactly one node has no next_sibling and exactly one has no
\* previous_sibling, also after a parentless node is attached by a later row.
C2_SiblingChainConsistent ==
    /\ \A n \in 1..Len(heap) :
          /\ heap[n].next_sibling # NoNode
                => heap[heap[n].next_sibling].previous_sibling = n
          /\ heap[n].previous_sibling # NoNode
                => heap[heap[n].previous_sibling].next_sibling = n
    /\ \A L \in SiblingLists :
          /\ Cardinality({i \in 1..Len(L) : heap[L[i]].next_sibling = NoNode}) = 1
          /\ Cardinality({i \in 1..Len(L) : heap[L[i]].previous_sibling = NoNode}) = 1

\* ------------------------------------------------------------------ C3
\* The distinct level-1 codes of the rows, in the order they first appeared
RECURSIVE FirstSeenTop(_, _)
FirstSeenTop(rs, seen) ==
    IF rs = <<>> THEN <<>>
    ELSE LET c == Head(rs)[1]
         IN  IF c = Blank \/ c[1] \in seen THEN FirstSeenTop(Tail(rs), seen)
             ELSE <<c[1]>> \o FirstSeenTop(Tail(rs), seen \cup {c[1]})

\* The parent chain of o, o first; cut at the heap size should the links loop
RECURSIVE Ancestors(_, _, _)
Ancestors(h, o, fuel) ==
    IF o = NoNode \/ fuel = 0 THEN {}
    ELSE {o} \cup Ancestors(h, h[o].parent, fuel - 1)

\* C3: roots_in_order holds exactly the parentless nodes, these are the
\* distinct division codes in first-appearance order, and a node with a
\* parent is not a root and reaches exactly one root by parent links.
C3_RootsAreDivisionsInOrder ==
    /\ Range(roots_in_order) = {o \in 1..Len(heap) : heap[o].parent = NoNode}
    /\ \A i \in 1..Len(roots_in_order) : heap[roots_in_order[i]].level = 1
    /\ [i \in 1..Len(roots_in_order) |-> heap[roots_in_order[i]].code] = FirstSeenTop(rows, {})
    /\ \A o \in 1..Len(heap) :
          heap[o].parent # NoNode =>
            /\ o \notin Range(roots_in_order)
            /\ Cardinality(Ancestors(heap, o, Len(heap)) \cap Range(roots_in_order)) = 1

\* ------------------------------------------------------------------ C4
\* C4: once a node has a parent, no later row changes its parent, its
\* parent_id, its previous_sibling, or a next_sibling link it already has; and
\* a node is in the children list of at most one parent, once.
C4_FirstSeenParentWins ==
    [][ /\ \A n \in 1..Len(heap) :
             heap[n].parent # NoNode =>
               /\ heap'[n].parent = heap[n].parent
               /\ heap'[n].parent_id = heap[n].parent_id
               /\ heap'[n].previous_sibling = heap[n].previous_sibling
               /\ heap[n].next_sibling # NoNode
                     => heap'[n].next_sibling = heap[n].next_sibling
        /\ \A n \in 1..Len(heap') :
             Cardinality({<<p, i>> \in (1..Len(heap')) \X (1..Len(heap')) :
                            i <= Len(heap'[p].children) /\ heap'[p].children[i] = n}) <= 1
      ]_graphVars

\* ------------------------------------------------------------------ C5
\* The sibling chain of list L, read through next_sibling from the node with
\* no previous_sibling, is L
ChainIs(h, L) ==
    /\ h[L[1]].previous_sibling = NoNode
    /\ \A i \in 1..(Len(L) - 1) : h[L[i]].next_sibling = L[i + 1]
    /\ h[L[Len(L)]].next_sibling = NoNode

\* C5: every children list and the root list only grow at the end, and the
\* sibling chain lists the same nodes in the same order as the list.
C5_AppendOnlyEncounterOrder ==
    [][ /\ IsPrefix(roots_in_order, roots_in_order')
        /\ \A o \in 1..Len(heap) : IsPrefix(heap[o].children, heap'[o].children)
        /\ roots_in_order' # <<>> => ChainIs(heap', roots_in_order')
        /\ \A o \in 1..Len(heap') :
             heap'[o].children # <<>> => ChainIs(heap', heap'[o].children)
      ]_graphVars

\* ------------------------------------------------------------------ C6
\* C6: reading the rows read so far a second time into the graph they built
\* changes nothing: same nodes, names, parents, list orders, sibling links.
C6_BuildIdempotent == ProcessRows(Graph, rows) = Graph

\* The rows attached a parentless node late and presented a key under a
\* second parent: the second pass meets every branch of get_or_add
C6_Witness ==
    /\ Len(rows) = 3
    /\ rows[1] = [l \in Levels |-> IF l = 1 THEN Blank ELSE <<"a", "x">>]
    /\ rows[2] = [l \in Levels |-> <<"a", "x">>]
    /\ rows[3] = [l \in Levels |-> IF l = 1 THEN <<"b", "y">> ELSE <<"a", "x">>]
    /\ Len(heap) = 3

C8_SimulationOnlyLooksUp ==
    simulation => \A i \in 1..Len(calls) : calls[i].verb = "lookup"

\* A simulation run ended after a lookup that found a record and one that
\* found none, and after enforce_ordering processed both nodes
C8_Witness ==
    /\ simulation /\ pc = "done"
    /\ found = 1 /\ Cardinality(generated_ids) = 1
    /\ processed = 2

C10_Counts ==
    ResolveCompleted =>
      /\ found = Cardinality({i \in CallsOf("lookup") : calls[i].id # NoId})
      /\ created = Cardinality(CallsOf("create"))
      /\ ~simulation => found + created = Len(nodes)
      /\ simulation => created = 0

\* Outside simulation, one node was found and one created; and so for a
\* simulation run with one node found and one synthesized
C10_Witness ==
    /\ ResolveCompleted /\ ~simulation
    /\ found = 1 /\ created = 1 /\ Len(nodes) = 2

\* Has enforce_ordering been entered and left, by return or by exception?
EnforceEnded == pc = "done" \/ (pc = "failed" /\ error = "TypeError")

C13_FailureAborts ==
    \A i \in 1..Len(calls) :
       ~calls[i].ok =>
          /\ i = Len(calls)
          /\ pc = "failed" /\ error = "RemoteError"
          /\ patches = <<>> /\ processed = 0

\* A create failed after a first node had been resolved
C13_Witness ==
    /\ pc = "failed"
    /\ Len(calls) >= 3
    /\ calls[Len(calls)].verb = "create" /\ ~calls[Len(calls)].ok
    /\ calls[1].ok

C18_SiblingIdLinks ==
    ResolveCompleted =>
      \A n \in 1..Len(heap) :
         LET prev == heap[n].previous_sibling
             next == heap[n].next_sibling
         IN  /\ (prev # NoNode /\ heap[prev].id # NoId)
                   => heap[n].previous_sibling_id = heap[prev].id
             /\ (next # NoNode /\ heap[next].id # NoId)
                   => heap[n].next_sibling_id = heap[next].id
             /\ heap[n].previous_sibling_id = NO_SIBLING_ID
                   <=> (prev = NoNode \/ heap[prev].id = NoId)
             /\ heap[n].next_sibling_id = NO_SIBLING_ID
                   <=> (next = NoNode \/ heap[next].id = NoId)

\* The pass left a node holding an identifier whose next sibling holds none:
\* the node has the sentinel as next_sibling_id, the sibling has the node's
\* identifier as previous_sibling_id
C18_Witness ==
    /\ ResolveCompleted
    /\ \E n \in 1..Len(heap) :
          LET next == heap[n].next_sibling
          IN  /\ next # NoNode
              /\ heap[n].id # NoId /\ heap[next].id = NoId
              /\ heap[n].next_sibling_id = NO_SIBLING_ID
              /\ heap[next].previous_sibling_id = heap[n].id

\* ----------------------------------------------------------------- C19
\* The nodes the loop of resolve_or_create_ids has entered its body for
Reached ==
    LET k == IF pc = "failed" /\ error \in {"AttributeError", "RemoteError"}
             THEN cursor + 1 ELSE cursor
    IN  {ResolveOrder(nodes)[i] : i \in 1..k}

LookupsOf(n) == {i \in CallsOf("lookup") : calls[i].node = n}

\* C19: in both modes every node the resolver visits gets exactly one
\* lookup-by-description, keyed by the node's name; a node is created, or
\* holds an identifier, only after its own lookup has returned, without an
\* identifier in the case of a create; and a lookup that fails leads to no
\* create and no identifier for that node.
C19_LookupBeforeIdentifier ==
    /\ \A n \in Reached :
          /\ Cardinality(LookupsOf(n)) = 1
          /\ \A i \in LookupsOf(n) : calls[i].description = heap[n].name
    /\ \A i \in CallsOf("create") :
          \E j \in LookupsOf(calls[i].node) :
             j < i /\ calls[j].ok /\ calls[j].id = NoId
    /\ \A n \in 1..Len(heap) :
          /\ heap[n].id # NoId => \E j \in LookupsOf(n) : calls[j].ok
          /\ (\E j \in LookupsOf(n) : ~calls[j].ok) =>
                /\ heap[n].id = NoId
                /\ \A i \in CallsOf("create") : calls[i].node # n

\* ----------------------------------------------------------------- C14
\* C14: on an authenticated call a 401 clears the cached token and is
\* followed by exactly one token fetch and one retry; a 401 that answers
\* that retry ends the call: it is handed back as the failure, with no
\* further token fetch and no further attempt.
C14_SingleReauth ==
    ~skip_auth =>
      \A i \in 1..Len(sends) :
         sends[i].status = 401 =>
            IF i > 1 /\ sends[i - 1].status = 401
            THEN /\ i = Len(sends)
                 /\ rq \in {"returned", "raised"}
                 /\ token_fetches = sends[i].fetches
            ELSE /\ i = Len(sends) =>
                       /\ rq \in {"loop", "raised"}
                       /\ token_fetches <= sends[i].fetches + 1
                       /\ rq = "loop" => (token <=> token_fetches = sends[i].fetches + 1)
                 /\ i < Len(sends) => sends[i + 1].fetches = sends[i].fetches + 1

\* ----------------------------------------------------------------- C15
\* The sends of the call stay within the budget, a further send follows only
\* a 401 (on an authenticated call), a transient status or a transport
\* error, and a call whose last send failed does not end well
C15_Budget ==
    /\ Len(sends) <= max_retries + 1
    /\ attempt <= max_retries
    /\ rq = "loop" => attempt = Len(sends)
    /\ \A i \in 1..(Len(sends) - 1) :
          \/ sends[i].status = RequestError
          \/ sends[i].status = 401 /\ ~skip_auth
          \/ sends[i].status \in {429, 500, 502, 503, 504}
    /\ rq = "ok" => sends[Len(sends)].status = 200
    /\ (Len(sends) = max_retries + 1 /\ sends[Len(sends)].status # 200)
          => rq \in {"returned", "raised"}

\* C15: _request terminates for every sequence of responses and transport
\* errors; it sends at most max_retries + 1 attempts, 401, transient and
\* transport retries counted against one budget; it retries only on 401,
\* 429, 500, 502, 503, 504 or a transport error; and with the budget spent
\* the last failure reaches the caller as an error.
C15_BoundedRetries ==
    /\ []C15_Budget
    /\ <>(rq \in {"ok", "raised"})
    /\ [](rq = "returned" => <>(rq \in {"ok", "raised"}))

\* The budget was spent on a 401, a transient status and a transport error,
\* and the last failure was raised to the caller
C15_Witness ==
    /\ Len(sends) = max_retries + 1
    /\ {sends[i].status : i \in 1..Len(sends)} = {401, 503, RequestError}
    /\ token_fetches >= 1
    /\ rq = "raised"

\* ----------------------------------------------------------------- C16
\* The requests whose handler is between its first and its last statement
InFlight == {r \in Workers : requests[r].at \notin {"free", "ok", "error"}}

\* The requests inside resolve_or_create_ids or enforce_ordering
InPass == {r \in Workers : requests[r].at \in {"resolving", "enforcing"}}

\* C16: no two resolution or ordering passes run at once against one graph,
\* and the graph a request works on, the one a /module2 request enforces
\* included, is held by no other request in flight.
C16_OwnGraphPerRun ==
    /\ \A r1, r2 \in InPass :
          r1 # r2 => requests[r1].graph # requests[r2].graph
    /\ \A r1, r2 \in InFlight :
          (r1 # r2 /\ requests[r1].graph # NoGraph)
             => requests[r1].graph # requests[r2].graph

\* ----------------------------------------------------------------- C20
\* ORG_GRAPH is unset or names a graph whose resolution returned; a pass of
\* enforce_ordering runs on such a graph only; a /module2 request that has
\* failed holding no graph has made no client, hence no remote call
C20_Committed ==
    /\ ORG_GRAPH # NoGraph => graphs[ORG_GRAPH].resolved
    /\ \A r \in Workers :
          /\ requests[r].at = "enforcing" => graphs[requests[r].graph].resolved
          /\ (requests[r].kind = "module2" /\ requests[r].at = "error"
                /\ requests[r].graph = NoGraph) => ~requests[r].client

\* A step in which a request fails leaves ORG_GRAPH as it was, and a
\* /module2 request that finds ORG_GRAPH unset fails in that step
C20_FailureKeeps ==
    \A r \in Workers :
       /\ (requests[r].at # "error" /\ requests'[r].at = "error")
             => ORG_GRAPH' = ORG_GRAPH
       /\ (requests[r].kind = "module2" /\ requests[r].at = "start"
             /\ requests'[r].at # "start" /\ ORG_GRAPH = NoGraph)
             => requests'[r].at = "error" /\ ~requests'[r].client

\* C20: ORG_GRAPH is at every moment unset or a graph whose resolution pass
\* ran to completion; a /module1 or /upload-org request that fails in build,
\* resolution or enforcement leaves it unchanged; /module2 with ORG_GRAPH
\* unset fails without a client or a remote call; enforcement never starts
\* on a graph whose resolution has not completed.
C20_OrgGraphResolved == []C20_Committed /\ [][C20_FailureKeeps]_vars

\* A graph is committed, a /upload-org request has failed in enforcement
\* with its own resolved graph, and a /module2 request enforces the
\* committed graph
C20_Witness ==
    /\ ORG_GRAPH # NoGraph
    /\ \E r1, r2 \in Workers :
          /\ requests[r1].kind = "upload" /\ requests[r1].at = "error"
          /\ requests[r1].graph # NoGraph /\ graphs[requests[r1].graph].resolved
          /\ requests[r1].graph # ORG_GRAPH
          /\ requests[r2].kind = "module2" /\ requests[r2].at = "enforcing"
          /\ requests[r2].graph = ORG_GRAPH

\* ----------------------------------------------------------------- C21
\* C21: when the CSV file is missing or a required column is missing, the
\* request fails before any token fetch, lookup, create or patch is issued
\* and before any row is added to a graph.
C21_InputErrorsFirst ==
    error \in InputErrors =>
       /\ pc = "failed"
       /\ rows = <<>> /\ heap = <<>> /\ nodes = <<>> /\ roots_in_order = <<>>
       /\ calls = <<>> /\ patches = <<>>
       /\ sends = <<>> /\ token_fetches = 0
       /\ found = 0 /\ created = 0 /\ processed = 0

\* The request failed for a missing required column
C21_Witness == pc = "failed" /\ error = "ValueError"

\* ----------------------------------------------------------------- C22
\* C22: a non-simulation resolve_or_create_ids re-run on the same rows, against
\* a service that keeps every record created so far and returns it on
\* lookup-by-description, issues no create call (created = 0, found = number
\* of nodes), and every node adopts the identifier it had in the first run,
\* also when the first run was aborted part-way.
C22_IdempotentRerun ==
    (run = "rerun" /\ RunEnded /\ error # "RemoteError") =>
       /\ pc = "enforce"
       /\ CallsOf("create") = {}
       /\ created = 0 /\ found = Len(nodes)
       /\ \A n \in 1..Len(heap) : first.ids[n] # NoId => heap[n].id = first.ids[n]

====
